---- MODULE Spec2Model ----
(***************************************************************************)
(* A model of the connection pool of lib/python/antipool.py:               *)
(* ConnectionPool (read-write pool, shared read-only connection,           *)
(* scale-down, finalize) and the three connection wrapper classes.         *)
(*                                                                         *)
(* Every method that runs under a pool lock is one atomic action; the only *)
(* place where a thread gives the lock up in the middle of a method is     *)
(* Condition.wait() in _acquire, so a blocked acquire is the one operation *)
(* that spans several steps (pc = "wait", then "notified").                *)
(***************************************************************************)
EXTENDS Integers, Sequences, FiniteSets, TLC

\* ---------------------------------------------------------------- bounds
NThreads == 2        \* threads calling into the pool
MaxWrappers == 2     \* wrapper objects alive at the same time
MaxHandles == 2      \* connections the DBAPI module creates in one run
MaxTime == 2         \* last reading of the clock
MaxMinconn == 2      \* largest 'minconn' option
MaxMaxconn == 1      \* largest 'maxconn' option
MaxKeep == 1         \* largest 'minkeepsecs' option
MaxPool == 2         \* _release is not taken with a longer pool than this
MaxDebt == 1         \* nor with _nbconn at or below -MaxDebt
MaxStats == 1        \* calls of _getstats in progress at the same time

\* ------------------------------------------------------------- constants
None == 0            \* Python's None (handles and maxconn are positive)
DefaultUser == 1     \* the user of the connection parameters
RoUser == 2          \* the user of the 'user_readonly' option

Threads == 1..NThreads
Slots == 1..MaxWrappers

VARIABLES
    constructed,     \* ConnectionPool.__init__ returned normally
    ro_shared,       \* self._ro_shared
    minconn,         \* self._minconn
    maxconn_opt,     \* the 'maxconn' option as passed by the caller
    maxconn,         \* self._maxconn
    minkeepsecs,     \* self._minkeepsecs
    user_ro,         \* self._user_ro
    debug_unreleased,\* self._debug_unreleased is a function
    params,          \* self._params['user']
    pool,            \* self._pool: sequence of <<conn, last_released>>
    nbconn,          \* self._nbconn
    roconn,          \* self._roconn
    roconn_refs,     \* self._roconn_refs
    wrappers,        \* the wrapper objects: class and _conn of each
    pc,              \* where each thread is: "idle", "wait", "notified"
    want,            \* wrapper class a thread inside _acquire will build
    now,             \* datetime.now()
    nconnect,        \* connections created so far by dbapi.connect
    closed,          \* connections on which close() has returned
    creds,           \* the user each connection was created with
    total_conn,      \* total_conn of each thread inside _getstats
    pool_lock,       \* self._pool_lock: owner and depth of the RLock
    roconn_lock,     \* self._roconn_lock: its owner
    lockpc,          \* the method each thread is in and its next lock operation
    releasing,       \* wrapper and connection of the release() a thread is in
    last             \* the operation just executed and how it ended

vars == <<constructed, ro_shared, minconn, maxconn_opt, maxconn, minkeepsecs,
          user_ro, debug_unreleased, params,
          pool, nbconn, roconn, roconn_refs, wrappers, pc, want, now,
          nconnect, closed, creds, total_conn, pool_lock, roconn_lock, lockpc,
          releasing, last>>

config == <<constructed, ro_shared, minconn, maxconn_opt, maxconn, minkeepsecs,
            user_ro, debug_unreleased, params>>

\* The locks are taken and given back inside one step of Spec (a step is
\* a whole critical section); LockSpec follows them one operation at a
\* time.
locks == <<pool_lock, roconn_lock, lockpc>>

\* What every step of Spec leaves alone: the options, the locks, the
\* local variable of _getstats and the release() calls under way (in Spec
\* a call of release() is one step).
rest == <<config, locks, total_conn, releasing>>

\* What the lock operations leave alone.
data == <<config, total_conn, releasing, pool, nbconn, roconn, roconn_refs,
          wrappers, pc, want, now, nconnect, creds, closed, last>>

\* ------------------------------------------------------------ __init__
\* self._ro_shared (lines 223-224)
RoShared(disable_ro, threadsafety) == ~disable_ro /\ threadsafety >= 2

\* Lines 225-234: when the read-only connection is not shared the
\* constructor evaluates the name 'disable_ro', which is bound nowhere
\* (the option was popped without being stored): NameError.
InitRaises(shared) == ~shared

\* A slip of sign in the reservation of line 242.
EffectiveMaxconn_Plus(opt, shared) ==
    IF opt = None THEN None
    ELSE IF ~shared THEN opt - 1 ELSE opt + 1

\* self._maxconn (lines 238-243)
EffectiveMaxconn(opt, shared) ==
    IF opt = None THEN None
    ELSE IF ~shared THEN opt - 1 ELSE opt

NoWrapper == [cls |-> "none", conn |-> None]
NoOp == [op |-> "init", w |-> 0, result |-> "ok", evicted |-> {}, nclose |-> 0,
         hook |-> FALSE, value |-> <<>>]

\* A lock nobody holds.
Free == [owner |-> 0, depth |-> 0]

\* A thread that is in no call of release().
NoRelease == [w |-> 0, conn |-> None]

\* A thread outside every method of the pool.
Outside == [method |-> "none", at |-> 0, waiting |-> FALSE]

\* The state __init__ leaves (lines 187-259), for options drawn from the
\* given sets.
InitWith(Minconns, Maxconns, Keeps, UserRos, Hooks) ==
    \E disable_ro \in BOOLEAN, threadsafety \in {1, 2},
       mc \in Minconns, mx \in Maxconns, mk \in Keeps,
       uro \in UserRos, hk \in Hooks :
        /\ user_ro = uro
        /\ debug_unreleased = hk
        /\ params = DefaultUser
        /\ creds = [h \in 1..MaxHandles |-> None]
        /\ total_conn = [t \in Threads |-> 0]
        /\ pool_lock = Free
        /\ roconn_lock = 0
        /\ lockpc = [t \in Threads |-> Outside]
        /\ releasing = [t \in Threads |-> NoRelease]
        /\ ro_shared = RoShared(disable_ro, threadsafety)
        /\ constructed = ~InitRaises(RoShared(disable_ro, threadsafety))
        /\ minconn = mc
        /\ maxconn_opt = mx
        /\ maxconn = EffectiveMaxconn(mx, RoShared(disable_ro, threadsafety))
        /\ minkeepsecs = mk
        /\ pool = <<>>
        /\ nbconn = 0
        /\ roconn = None
        /\ roconn_refs = 0
        /\ wrappers = [w \in Slots |-> NoWrapper]
        /\ pc = [t \in Threads |-> "idle"]
        /\ want = [t \in Threads |-> "none"]
        /\ now = 0
        /\ nconnect = 0
        /\ closed = {}
        /\ last = NoOp

\* Pools with the options of the pool itself (minconn, maxconn,
\* minkeepsecs, disable_ro); 'user_readonly' and 'debug_unreleased' are
\* left at their default, None.
Init ==
    InitWith(0..MaxMinconn, {None} \cup (1..MaxMaxconn), 0..MaxKeep,
             {None}, {FALSE})

\* ------------------------------------------------------------- helpers
\* Python 2 ordering of an int against self._maxconn, which may be None:
\* None sorts before every number, so n < None is False.
LessThan(n, m) == IF m = None THEN FALSE ELSE n < m

FreeSlots == {w \in Slots : wrappers[w].cls = "none"}

\* A connection handed to a wrapper object that was released before.
NewSlot_Recycled ==
    CHOOSE w \in Slots : /\ wrappers[w].conn = None
                         /\ \A v \in Slots : wrappers[v].conn = None => w <= v

NewSlot == CHOOSE w \in FreeSlots : \A v \in FreeSlots : w <= v

Result(op, w, res) ==
    [op |-> op, w |-> w, result |-> res, evicted |-> {}, nclose |-> 0,
     hook |-> FALSE, value |-> <<>>]

Waiters == {t \in Threads : pc[t] = "wait"}

\* ------------------------------------------------- _create_connection
\* _create_connection connecting with the stored parameters as they are.
ConnectUser_Stored(read_only) == params

\* The user _create_connection connects with (lines 289-294): the
\* parameters are copied before 'user' is replaced.
ConnectUser(read_only) ==
    IF read_only /\ user_ro # None THEN user_ro ELSE params

\* dbapi.connect returned the connection h for _create_connection.
Created(h, read_only) ==
    creds' = [creds EXCEPT ![h] = ConnectUser(read_only)]

\* ------------------------------------------------------------ _acquire
\* _acquire without the loop of lines 358-364.
MustWait_Never(p, n) == FALSE

\* The loop of line 358 testing the pool only.
MustWait_EmptyPool(p, n) == maxconn # None /\ p = <<>>

\* The loop condition of line 358, under the guard of line 354.
MustWait(p, n) == maxconn # None /\ p = <<>> /\ n = maxconn

\* The sanity checks of lines 369 and 377.
HasRoom(p, n) == maxconn = None \/ p # <<>> \/ n < maxconn

\* _acquire creating a connection whatever the pool holds.
TakesFromPool_Never(p) == FALSE

\* The test of line 371.
TakesFromPool(p) == p # <<>>

\* _acquire counting the connection before it is created.
AcquireRaises_Counted(t, op, res) ==
    /\ pc' = [pc EXCEPT ![t] = "idle"]
    /\ want' = [want EXCEPT ![t] = "none"]
    /\ last' = Result(op, 0, res)
    /\ nbconn' = nbconn + 1
    /\ UNCHANGED <<rest, pool, roconn, roconn_refs, wrappers, now,
                   nconnect, creds, closed>>

\* An exception leaves _acquire through the finally clause: nothing but
\* the caller's view changes.
AcquireRaises(t, op, res) ==
    /\ pc' = [pc EXCEPT ![t] = "idle"]
    /\ want' = [want EXCEPT ![t] = "none"]
    /\ last' = Result(op, 0, res)
    /\ UNCHANGED <<rest, pool, nbconn, roconn, roconn_refs, wrappers, now,
                   nconnect, creds, closed>>

\* The caller wraps the connection it got (lines 395, 410-411).
Wrap(t, op, cls, conn) ==
    /\ wrappers' = [wrappers EXCEPT ![NewSlot] = [cls |-> cls, conn |-> conn]]
    /\ pc' = [pc EXCEPT ![t] = "idle"]
    /\ want' = [want EXCEPT ![t] = "none"]
    /\ last' = Result(op, NewSlot, "ok")

\* _acquire (lines 342-386) from the point where the thread holds the pool
\* lock: on entry (op = "acquire") or back from Condition.wait()
\* (op = "resume").
Acquire(t, cls, op) ==
    /\ FreeSlots # {}
    /\ IF op = "acquire" /\ maxconn # None /\ ~(nbconn <= maxconn)
       THEN AcquireRaises(t, op, "AssertionError")
       ELSE IF MustWait(pool, nbconn)
       THEN /\ pc' = [pc EXCEPT ![t] = "wait"]
            /\ want' = [want EXCEPT ![t] = cls]
            /\ last' = Result(op, 0, "wait")
            /\ UNCHANGED <<rest, pool, nbconn, roconn, roconn_refs,
                           wrappers, now, nconnect, creds, closed>>
       ELSE IF ~HasRoom(pool, nbconn)
       THEN AcquireRaises(t, op, "AssertionError")
       ELSE IF TakesFromPool(pool)
       THEN /\ pool' = SubSeq(pool, 1, Len(pool) - 1)
            /\ Wrap(t, op, cls, pool[Len(pool)][1])
            /\ UNCHANGED <<rest, nbconn, roconn, roconn_refs, now,
                           nconnect, creds, closed>>
       ELSE \/ AcquireRaises(t, op, "ConnectError")
            \/ /\ nconnect < MaxHandles
               /\ nconnect' = nconnect + 1
               /\ Created(nconnect + 1, FALSE)
               /\ nbconn' = nbconn + 1
               /\ Wrap(t, op, cls, nconnect + 1)
               /\ UNCHANGED <<rest, pool, roconn, roconn_refs, now, closed>>

\* _get_connection_ro creating a connection at every call.
NeedsRoConn_Always == TRUE

\* The test of line 328.
NeedsRoConn == roconn = None

\* _get_connection_ro counting the reference before the connection is
\* created.
GetConnectionRoRaises_Counted(res) ==
    /\ last' = Result("acquire_ro", 0, res)
    /\ roconn_refs' = roconn_refs + 1
    /\ UNCHANGED <<rest, pool, nbconn, roconn, wrappers, pc, want, now,
                   nconnect, creds, closed>>

\* _create_connection raises at line 329: the assignment to self._roconn
\* and line 330 are not executed, the finally clause gives the lock back.
GetConnectionRoRaises(res) ==
    /\ last' = Result("acquire_ro", 0, res)
    /\ UNCHANGED <<rest, pool, nbconn, roconn, roconn_refs, wrappers, pc,
                   want, now, nconnect, creds, closed>>

\* _get_connection_ro and the wrapper of connection_ro (lines 321-340).
GetConnectionRo(t) ==
    /\ FreeSlots # {}
    /\ IF NeedsRoConn
       THEN \/ GetConnectionRoRaises("ConnectError")
            \/ /\ nconnect < MaxHandles
               /\ nconnect' = nconnect + 1
               /\ Created(nconnect + 1, TRUE)
               /\ roconn' = nconnect + 1
               /\ roconn_refs' = roconn_refs + 1
               /\ Wrap(t, "acquire_ro", "RO", nconnect + 1)
               /\ UNCHANGED <<rest, pool, nbconn, now, closed>>
       ELSE /\ roconn_refs' = roconn_refs + 1
            /\ Wrap(t, "acquire_ro", "RO", roconn)
            /\ UNCHANGED <<rest, pool, nbconn, roconn, now, nconnect, creds,
                           closed>>

\* self.connection_ro: the method of the class, or _connection_ro_crippled
\* when __init__ rebound it (lines 225-227, 388-396).
ConnectionRoBody(t) ==
    IF ro_shared THEN GetConnectionRo(t) ELSE Acquire(t, "Crippled", "acquire")

\* connection_ro() (lines 335-340)
ConnectionRo(t) ==
    /\ constructed
    /\ pc[t] = "idle"
    /\ ConnectionRoBody(t)

\* connection() paying no attention to 'readonly'.
ConnectionArg_ReadWrite(t, readonly) ==
    /\ constructed
    /\ pc[t] = "idle"
    /\ Acquire(t, "RW", "acquire")

\* connection(readonly=...) (lines 404-411)
ConnectionArg(t, readonly) ==
    /\ constructed
    /\ pc[t] = "idle"
    /\ IF readonly THEN ConnectionRoBody(t) ELSE Acquire(t, "RW", "acquire")

\* connection(), whatever the caller passes for 'readonly'.
Connection(t) == \E readonly \in BOOLEAN : ConnectionArg(t, readonly)

\* A thread woken by notify() takes the lock again and goes on in the loop
\* of lines 358-364.
AcquireResume(t) ==
    /\ pc[t] = "notified"
    /\ Acquire(t, want[t], "resume")

\* ---------------------------------------------------------- _scaledown
\* Line 473 without the test of the time of release.
IsStale_Always(last_released, tnow) == TRUE

\* last_released < minkeepsecs of line 473, the limit being the one of
\* line 465 for a clock reading of tnow.
IsStale(last_released, tnow) == last_released < tnow - minkeepsecs

\* Line 468 without the floor of minconn.
Excess_NoFloor(len) == len

\* The number of connections that can go (line 468).
Excess(len) == len - minconn

\* The loop of lines 471-478 over the pool p from entry i on.  st carries
\* filtered_pool, _nbconn, the connections closed and the number of calls
\* of _close that returned; failAt is the call of _close that raises
\* (0: none does), since _close hands the exception of conn.close() on
\* (lines 300-305).
RECURSIVE ScaleLoop(_, _, _, _, _, _)
ScaleLoop(p, i, n, st, tnow, failAt) ==
    IF i > Len(p) \/ st.raised THEN st
    ELSE IF n > 0 /\ IsStale(p[i][2], tnow)
    THEN IF st.nclose + 1 = failAt
         THEN [st EXCEPT !.raised = TRUE]
         ELSE ScaleLoop(p, i + 1, n - 1,
                        [st EXCEPT !.nbconn = @ - 1,
                                   !.evicted = @ \cup {p[i][1]},
                                   !.nclose = @ + 1],
                        tnow, failAt)
    ELSE ScaleLoop(p, i + 1, n,
                   [st EXCEPT !.filtered = Append(@, p[i])], tnow, failAt)

\* _scaledown (lines 452-481) on the pool p with _nbconn = nb.  When a
\* close raises, line 479 is not reached and self._pool stays as it was.
Scaledown(p, nb, tnow, failAt) ==
    LET st0 == [filtered |-> <<>>, nbconn |-> nb, evicted |-> {},
                nclose |-> 0, raised |-> FALSE]
        st == IF Excess(Len(p)) > 0
              THEN ScaleLoop(p, 1, Excess(Len(p)), st0, tnow, failAt)
              ELSE [st0 EXCEPT !.filtered = p]
    IN [pool |-> IF st.raised THEN p ELSE st.filtered,
        nbconn |-> st.nbconn, evicted |-> st.evicted,
        nclose |-> st.nclose, raised |-> st.raised]

\* ------------------------------------------------- _release, _release_ro
\* notify() of line 443: one of the threads blocked in wait(), if any.
Woken == IF Waiters = {} THEN {0} ELSE Waiters

Notify(woken) ==
    pc' = [t \in Threads |-> IF t = woken THEN "notified" ELSE pc[t]]

\* The check of line 440.
ReleaseCheck(p, n) == p # <<>> \/ LessThan(n, maxconn)

\* What _release(conn) (lines 429-450) makes of the pool when the clock
\* reads tnow in _scaledown and the failAt-th close raises.
PoolRelease(conn, tnow, failAt) ==
    IF conn = roconn
    THEN [pool |-> pool, nbconn |-> nbconn, evicted |-> {}, nclose |-> 0,
          result |-> "AssertionError"]
    ELSE LET sd == Scaledown(Append(pool, <<conn, now>>), nbconn, tnow, failAt)
         IN [pool |-> sd.pool, nbconn |-> sd.nbconn, evicted |-> sd.evicted,
             nclose |-> sd.nclose,
             result |-> IF sd.raised THEN "CloseError"
                        ELSE IF ~ReleaseCheck(sd.pool, sd.nbconn)
                        THEN "AssertionError" ELSE "ok"]

\* What _release_ro(conn) (lines 413-427) answers.
RoReleaseResult(conn) ==
    IF roconn = None \/ conn # roconn THEN "AssertionError" ELSE "ok"

\* release() with the assignment of line 598 in a finally clause.
ConnAfterRelease_Clear(conn, res) == None

\* release() without the assignment of line 598.
ConnAfterRelease_Keep(conn, res) == conn

\* self._conn after release() (lines 596-598): cleared only when
\* _release_impl returned.
ConnAfterRelease(conn, res) == IF res = "ok" THEN None ELSE conn

\* _getconn without the test of line 591.
GetconnRaises_Never(conn) == FALSE

\* _getconn (lines 590-594)
GetconnRaises(conn) == conn = None

\* ConnectionWrapperCrippled without a _release_impl of its own.
ReleasesToRo_Always(cls) == TRUE

\* _release_impl: ConnectionWrapperRO gives the connection back with
\* _release_ro (lines 600-601), ConnectionWrapperCrippled and
\* ConnectionWrapper with _release (lines 618-619).
ReleasesToRo(cls) == cls = "RO"

\* __del__ calls the function of the 'debug_unreleased' option, if there
\* is one, before it calls release() (lines 585-587).
Hooked(op) == op = "del" /\ debug_unreleased

\* release() of a wrapper (lines 596-601, 618-619), called by its owner
\* (op = "release") or by __del__ (op = "del", lines 583-588), which
\* leaves no wrapper behind whatever release() did.
DoRelease(w, op) ==
    LET cls == wrappers[w].cls
        conn == wrappers[w].conn
        After(res) == IF op = "del" THEN NoWrapper
                      ELSE [cls |-> cls, conn |-> ConnAfterRelease(conn, res)]
    IN
    IF GetconnRaises(conn)
    THEN /\ last' = [Result(op, w, "Closed") EXCEPT !.hook = Hooked(op)]
         /\ wrappers' = [wrappers EXCEPT ![w] = After("Closed")]
         /\ UNCHANGED <<rest, pool, nbconn, roconn, roconn_refs, pc, want,
                        now, nconnect, creds, closed>>
    ELSE IF ReleasesToRo(cls)
    THEN /\ roconn_refs' = IF RoReleaseResult(conn) = "ok"
                           THEN roconn_refs - 1 ELSE roconn_refs
         /\ wrappers' = [wrappers EXCEPT ![w] = After(RoReleaseResult(conn))]
         /\ last' = [Result(op, w, RoReleaseResult(conn))
                        EXCEPT !.hook = Hooked(op)]
         /\ UNCHANGED <<rest, pool, nbconn, roconn, pc, want, now,
                        nconnect, creds, closed>>
    ELSE /\ nbconn > -MaxDebt
         /\ Len(pool) < MaxPool
         /\ \E tnow \in {now, now + 1} :
              /\ tnow <= MaxTime
              /\ \E failAt \in 0..PoolRelease(conn, tnow, 0).nclose :
                   LET r == PoolRelease(conn, tnow, failAt) IN
                   /\ now' = tnow
                   /\ pool' = r.pool
                   /\ nbconn' = r.nbconn
                   /\ closed' = closed \cup r.evicted
                   /\ wrappers' = [wrappers EXCEPT ![w] = After(r.result)]
                   /\ IF r.result = "ok"
                      THEN \E woken \in Woken : Notify(woken)
                      ELSE UNCHANGED pc
                   /\ last' = [op |-> op, w |-> w, result |-> r.result,
                               evicted |-> r.evicted, nclose |-> r.nclose,
                               hook |-> Hooked(op), value |-> <<>>]
                   /\ UNCHANGED <<rest, roconn, roconn_refs, want, nconnect,
                                  creds>>

\* release() returning quietly on a wrapper already released.
Release_Idempotent(w) ==
    /\ wrappers[w].cls # "none"
    /\ IF wrappers[w].conn = None
       THEN /\ last' = Result("release", w, "ok")
            /\ UNCHANGED <<rest, pool, nbconn, roconn, roconn_refs,
                           wrappers, pc, want, now, nconnect, creds, closed>>
       ELSE DoRelease(w, "release")

Release(w) ==
    /\ wrappers[w].cls # "none"
    /\ DoRelease(w, "release")

\* A wrapper that goes away without __del__ being run.
WrapperDel_Forget(w) ==
    /\ wrappers[w].cls # "none"
    /\ wrappers' = [wrappers EXCEPT ![w] = NoWrapper]
    /\ last' = Result("del", w, "ok")
    /\ UNCHANGED <<rest, pool, nbconn, roconn,
                   roconn_refs, pc, want, now, nconnect, creds, closed>>

\* The last reference to a wrapper goes away: __del__ (lines 583-588).
WrapperDel(w) ==
    /\ wrappers[w].cls # "none"
    /\ IF wrappers[w].conn = None
       THEN /\ wrappers' = [wrappers EXCEPT ![w] = NoWrapper]
            /\ last' = Result("del", w, "ok")
            /\ UNCHANGED <<rest, pool, nbconn, roconn, roconn_refs, pc,
                           want, now, nconnect, creds, closed>>
       ELSE DoRelease(w, "del")

\* ------------------------------------------------------------ finalize
\* The connections of the pool, in the order of the loop of line 511.
RECURSIVE PoolConns(_)
PoolConns(p) == IF p = <<>> THEN <<>> ELSE <<p[1][1]>> \o PoolConns(Tail(p))

\* The connections finalize() closes, in order (lines 506-512).
ToClose == (IF roconn # None THEN <<roconn>> ELSE <<>>) \o PoolConns(pool)

\* finalize() without the check of line 505.
FinalizeResult_NoRefCheck(failAt) ==
    IF pool = <<>> /\ roconn = None
    THEN IF nbconn = 0 THEN "noop" ELSE "AssertionError"
    ELSE IF Len(pool) # nbconn THEN "AssertionError"
    ELSE IF failAt \in 1..Len(ToClose) THEN "CloseError"
    ELSE "ok"

\* finalize() (lines 487-524); the failAt-th close raises (0: none does).
\* gc.collect() finds nothing: a wrapper nobody refers to has already run
\* its __del__ (WrapperDel).
FinalizeResult(failAt) ==
    IF pool = <<>> /\ roconn = None
    THEN IF nbconn = 0 THEN "noop" ELSE "AssertionError"
    ELSE IF Len(pool) # nbconn \/ roconn_refs # 0 THEN "AssertionError"
    ELSE IF failAt \in 1..Len(ToClose) THEN "CloseError"
    ELSE "ok"

Finalize ==
    /\ constructed
    /\ \E failAt \in 0..(IF FinalizeResult(0) = "ok" THEN Len(ToClose) ELSE 0) :
         LET res == FinalizeResult(failAt)
             done == IF res = "ok" THEN Len(ToClose)
                     ELSE IF res = "CloseError" THEN failAt - 1 ELSE 0
             shut == {ToClose[i] : i \in 1..done}
         IN
         /\ closed' = closed \cup shut
         /\ roconn' = IF roconn # None /\ done >= 1 THEN None ELSE roconn
         /\ pool' = IF res = "ok" THEN <<>> ELSE pool
         /\ nbconn' = IF res = "ok" THEN 0 ELSE nbconn
         /\ last' = [op |-> "finalize", w |-> 0, result |-> res,
                     evicted |-> shut, nclose |-> done,
                     hook |-> FALSE, value |-> <<>>]
         /\ UNCHANGED <<rest, roconn_refs, wrappers, pc, want, now,
                        nconnect, creds>>

\* ------------------------------------------------- wrapper operations
\* cursor() and rollback() (lines 603-604, 609-610)
DelegateResult(conn) == IF GetconnRaises(conn) THEN "Closed" ELSE "ok"

\* ConnectionWrapperRO.commit written like ConnectionWrapper.commit.
CommitResult_Delegates(cls, conn) == DelegateResult(conn)

\* commit() (lines 606-607, 626-627)
CommitResult(cls, conn) ==
    IF cls = "RW" THEN DelegateResult(conn) ELSE "ReadOnly"

WrapperOp(w, op, res) ==
    /\ wrappers[w].cls # "none"
    /\ last' = Result(op, w, res)
    /\ UNCHANGED <<rest, pool, nbconn, roconn, roconn_refs, wrappers, pc,
                   want, now, nconnect, creds, closed>>

Cursor(w) == WrapperOp(w, "cursor", DelegateResult(wrappers[w].conn))

Rollback(w) == WrapperOp(w, "rollback", DelegateResult(wrappers[w].conn))

Commit(w) ==
    WrapperOp(w, "commit", CommitResult(wrappers[w].cls, wrappers[w].conn))

\* ---------------------------------------------------------------- clock
Tick ==
    /\ constructed
    /\ now < MaxTime
    /\ now' = now + 1
    /\ last' = Result("tick", 0, "ok")
    /\ UNCHANGED <<rest, pool, nbconn, roconn, roconn_refs, wrappers, pc,
                   want, nconnect, creds, closed>>

Next ==
    \/ \E t \in Threads : Connection(t)
    \/ \E t \in Threads : ConnectionRo(t)
    \/ \E t \in Threads : AcquireResume(t)
    \/ \E w \in Slots : Release(w)
    \/ \E w \in Slots : WrapperDel(w)
    \/ \E w \in Slots : Cursor(w)
    \/ \E w \in Slots : Rollback(w)
    \/ \E w \in Slots : Commit(w)
    \/ Finalize
    \/ Tick

Spec == Init /\ [][Next]_vars

\* ------------------------------------------------------------ _getstats
\* The pair _getstats returns (lines 551-553).
StatsValue(pool_size, ro_part) == <<pool_size, ro_part + pool_size>>

\* _getstats, first critical section (lines 538-544): under the read-only
\* lock.
StatsRo(t) ==
    /\ constructed
    /\ pc[t] = "idle"
    /\ Cardinality({u \in Threads : pc[u] = "stats"}) < MaxStats
    /\ pc' = [pc EXCEPT ![t] = "stats"]
    /\ total_conn' = [total_conn EXCEPT ![t] = IF roconn # None THEN 1 ELSE 0]
    /\ last' = Result("stats_ro", 0, "ok")
    /\ UNCHANGED <<config, locks, releasing, pool, nbconn, roconn,
                   roconn_refs, wrappers, want, now, nconnect, creds, closed>>

\* _getstats, second critical section and return (lines 546-553): under
\* the pool lock.
StatsPool(t) ==
    /\ pc[t] = "stats"
    /\ pc' = [pc EXCEPT ![t] = "idle"]
    /\ total_conn' = [total_conn EXCEPT ![t] = 0]
    /\ last' = [Result("stats", 0, "ok")
                  EXCEPT !.value = StatsValue(Len(pool), total_conn[t])]
    /\ UNCHANGED <<config, locks, releasing, pool, nbconn, roconn,
                   roconn_refs, wrappers, want, now, nconnect, creds, closed>>

\* A pool whose threads also call _getstats.
StatsInit == InitWith({0}, {MaxMaxconn}, {0}, {None}, {FALSE})

StatsNext ==
    \/ Next
    \/ \E t \in Threads : StatsRo(t)
    \/ \E t \in Threads : StatsPool(t)

StatsSpec == StatsInit /\ [][StatsNext]_vars

\* Pools with or without the options 'user_readonly' and
\* 'debug_unreleased'.
OptionsInit == InitWith({0}, {MaxMaxconn}, {0}, {None, RoUser}, BOOLEAN)

OptionsSpec == OptionsInit /\ [][Next]_vars

\* ------------------------------------------- release() step by step
\* release() is 'self._release_impl(self._getconn())' followed by
\* 'self._connpool = self._conn = None' (lines 596-598), and the wrapper
\* has no lock of its own: between _getconn() and the pool's critical
\* section, and between that and line 598, other threads run.

\* release() up to the return of _getconn() (lines 590-596).
ReleaseGetconn(t, w) ==
    /\ pc[t] = "idle"
    /\ wrappers[w].cls # "none"
    /\ IF GetconnRaises(wrappers[w].conn)
       THEN /\ last' = Result("release", w, "Closed")
            /\ UNCHANGED <<pc, releasing>>
       ELSE /\ pc' = [pc EXCEPT ![t] = "releasing"]
            /\ releasing' = [releasing EXCEPT
                                ![t] = [w |-> w, conn |-> wrappers[w].conn]]
            /\ last' = Result("getconn", w, "ok")
    /\ UNCHANGED <<config, locks, total_conn, pool, nbconn, roconn,
                   roconn_refs, wrappers, want, now, nconnect, creds, closed>>

\* The rest of release(): _release_impl(conn) with the connection that
\* _getconn() returned, then line 598.  _release_impl reads
\* self._connpool when it is entered: if another thread has run line 598
\* by then it is None and the call raises AttributeError; if the read came
\* first (the thread was held up at the pool's lock), the pool takes the
\* connection.
ReleaseImpl(t) ==
    LET w == releasing[t].w
        conn == releasing[t].conn
        cls == wrappers[w].cls
        After(res) == [cls |-> cls, conn |-> ConnAfterRelease(wrappers[w].conn,
                                                              res)]
    IN
    /\ pc[t] = "releasing"
    /\ releasing' = [releasing EXCEPT ![t] = NoRelease]
    /\ \/ /\ wrappers[w].conn = None
          /\ last' = Result("release", w, "AttributeError")
          /\ pc' = [pc EXCEPT ![t] = "idle"]
          /\ UNCHANGED <<config, locks, total_conn, pool, nbconn, roconn,
                         roconn_refs, wrappers, want, now, nconnect, creds,
                         closed>>
       \/ /\ ReleasesToRo(cls)
          /\ roconn_refs' = IF RoReleaseResult(conn) = "ok"
                            THEN roconn_refs - 1 ELSE roconn_refs
          /\ wrappers' = [wrappers EXCEPT ![w] = After(RoReleaseResult(conn))]
          /\ last' = Result("release", w, RoReleaseResult(conn))
          /\ pc' = [pc EXCEPT ![t] = "idle"]
          /\ UNCHANGED <<config, locks, total_conn, pool, nbconn, roconn,
                         want, now, nconnect, creds, closed>>
       \/ /\ ~ReleasesToRo(cls)
          /\ nbconn > -MaxDebt
          /\ Len(pool) < MaxPool
          /\ \E tnow \in {now, now + 1} :
               /\ tnow <= MaxTime
               /\ \E failAt \in 0..PoolRelease(conn, tnow, 0).nclose :
                    LET r == PoolRelease(conn, tnow, failAt) IN
                    /\ now' = tnow
                    /\ pool' = r.pool
                    /\ nbconn' = r.nbconn
                    /\ closed' = closed \cup r.evicted
                    /\ wrappers' = [wrappers EXCEPT ![w] = After(r.result)]
                    /\ \E woken \in (IF r.result = "ok" THEN Woken ELSE {0}) :
                         pc' = [u \in Threads |->
                                  IF u = t THEN "idle"
                                  ELSE IF u = woken THEN "notified"
                                  ELSE pc[u]]
                    /\ last' = [op |-> "release", w |-> w,
                                result |-> r.result, evicted |-> r.evicted,
                                nclose |-> r.nclose, hook |-> FALSE,
                                value |-> <<>>]
                    /\ UNCHANGED <<config, locks, total_conn, roconn,
                                   roconn_refs, want, nconnect, creds>>

\* A pool whose wrappers are shared between the threads, release() being
\* followed step by step.  No wrapper goes away here: the threads keep
\* their references.
RaceInit == InitWith({0}, {None, MaxMaxconn}, 0..MaxKeep, {None}, {FALSE})

RaceNext ==
    \/ \E t \in Threads : Connection(t)
    \/ \E t \in Threads : ConnectionRo(t)
    \/ \E t \in Threads : AcquireResume(t)
    \/ \E t \in Threads, w \in Slots : ReleaseGetconn(t, w)
    \/ \E t \in Threads : ReleaseImpl(t)
    \/ Tick

RaceSpec == RaceInit /\ [][RaceNext]_vars

\* -------------------------------------------------------- lock protocol
\* The lock operations of each method of ConnectionPool, in program
\* order.  An exception leaves a method through its finally clauses, which
\* release what the method acquired.
Acq(l) == <<"acquire", l>>
Rel(l) == <<"release", l>>
WaitOn(l) == <<"wait", l>>

\* _get_connection_ro (lines 325, 332)
GetConnectionRoLocks == <<Acq("ro"), Rel("ro")>>

\* _release_ro (lines 419, 427)
ReleaseRoLocks == <<Acq("ro"), Rel("ro")>>

\* _acquire (lines 349, 362, 385)
AcquireLocks == <<Acq("pool"), WaitOn("pool"), Rel("pool")>>

\* _release testing 'conn is not self._roconn' under the read-only lock.
ReleaseLocks_RoChecked ==
    <<Acq("pool"), Acq("ro"), Rel("ro"), Acq("pool"), Rel("pool"),
      Rel("pool")>>

\* _release giving the lock up before it calls _scaledown.
ReleaseLocks_Early == <<Acq("pool"), Rel("pool"), Acq("pool"), Rel("pool")>>

\* _release and the _scaledown it calls (lines 433, 459, 481, 450)
ReleaseLocks == <<Acq("pool"), Acq("pool"), Rel("pool"), Rel("pool")>>

\* _getstats (lines 539, 544, 546, 550)
GetstatsLocks == <<Acq("ro"), Rel("ro"), Acq("pool"), Rel("pool")>>

\* finalize (lines 495, 496, 523, 524)
FinalizeLocks == <<Acq("ro"), Acq("pool"), Rel("ro"), Rel("pool")>>

Methods == {"_get_connection_ro", "_release_ro", "_acquire", "_release",
            "_getstats", "finalize"}

LockProgram(m) ==
    CASE m = "_get_connection_ro" -> GetConnectionRoLocks
      [] m = "_release_ro" -> ReleaseRoLocks
      [] m = "_acquire" -> AcquireLocks
      [] m = "_release" -> ReleaseLocks
      [] m = "_getstats" -> GetstatsLocks
      [] m = "finalize" -> FinalizeLocks

\* The lock operation a thread is about to execute.
Ins(t) ==
    IF lockpc[t].method # "none"
       /\ lockpc[t].at <= Len(LockProgram(lockpc[t].method))
    THEN LockProgram(lockpc[t].method)[lockpc[t].at]
    ELSE <<"none", "none">>

\* The positions of each method, counted in lock operations already
\* executed plus one, at which it reads or writes self._pool or
\* self._nbconn: _acquire around wait() (lines 351-364) and after the loop
\* (lines 369-383); _release before _scaledown (lines 435-438), inside it
\* (lines 468-479) and after it (lines 440-448); _getstats at line 548;
\* finalize at lines 498-521.
PoolUses(m) ==
    CASE m = "_acquire" -> {2, 3}
      [] m = "_release" -> {2, 3, 4}
      [] m = "_getstats" -> {4}
      [] m = "finalize" -> {3}
      [] OTHER -> {}

\* The thread is at a read or a write of self._pool or self._nbconn; a
\* thread inside wait() executes nothing.
Touching(t) ==
    /\ ~lockpc[t].waiting
    /\ lockpc[t].at \in PoolUses(lockpc[t].method)

Advance(t) == lockpc' = [lockpc EXCEPT ![t].at = @ + 1]

\* A thread enters a method of the pool.
Call(t) ==
    /\ constructed
    /\ lockpc[t] = Outside
    /\ \E m \in Methods :
          lockpc' = [lockpc EXCEPT ![t] =
                        [method |-> m, at |-> 1, waiting |-> FALSE]]
    /\ UNCHANGED <<data, pool_lock, roconn_lock>>

\* acquire(): the pool lock is an RLock, which its owner may take again;
\* the read-only lock is a Lock.
LockAcquire(t) ==
    /\ Ins(t)[1] = "acquire"
    /\ ~lockpc[t].waiting
    /\ IF Ins(t)[2] = "pool"
       THEN /\ pool_lock.owner \in {0, t}
            /\ pool_lock' = [owner |-> t, depth |-> pool_lock.depth + 1]
            /\ UNCHANGED roconn_lock
       ELSE /\ roconn_lock = 0
            /\ roconn_lock' = t
            /\ UNCHANGED pool_lock
    /\ Advance(t)
    /\ UNCHANGED data

\* release()
LockRelease(t) ==
    /\ Ins(t)[1] = "release"
    /\ IF Ins(t)[2] = "pool"
       THEN /\ pool_lock.owner = t
            /\ pool_lock' = IF pool_lock.depth = 1 THEN Free
                            ELSE [pool_lock EXCEPT !.depth = @ - 1]
            /\ UNCHANGED roconn_lock
       ELSE /\ roconn_lock' = 0
            /\ UNCHANGED pool_lock
    /\ Advance(t)
    /\ UNCHANGED data

\* The loop of lines 358-364: the thread goes on, or calls wait(), which
\* gives the lock up.
LockWait(t) ==
    /\ Ins(t)[1] = "wait"
    /\ ~lockpc[t].waiting
    /\ pool_lock.owner = t
    /\ \/ /\ Advance(t)
          /\ UNCHANGED pool_lock
       \/ /\ lockpc' = [lockpc EXCEPT ![t].waiting = TRUE]
          /\ pool_lock' = Free
    /\ UNCHANGED <<data, roconn_lock>>

\* wait() returns: it takes the lock again, and the loop tests again.
LockWake(t) ==
    /\ lockpc[t].waiting
    /\ pool_lock = Free
    /\ pool_lock' = [owner |-> t, depth |-> 1]
    /\ lockpc' = [lockpc EXCEPT ![t].waiting = FALSE]
    /\ UNCHANGED <<data, roconn_lock>>

\* The method returns (or raises).
Return(t) ==
    /\ lockpc[t].method # "none"
    /\ lockpc[t].at > Len(LockProgram(lockpc[t].method))
    /\ lockpc' = [lockpc EXCEPT ![t] = Outside]
    /\ UNCHANGED <<data, pool_lock, roconn_lock>>

LockInit == InitWith({0}, {MaxMaxconn}, {0}, {None}, {FALSE})

LockNext ==
    \/ \E t \in Threads : Call(t)
    \/ \E t \in Threads : LockAcquire(t)
    \/ \E t \in Threads : LockRelease(t)
    \/ \E t \in Threads : LockWait(t)
    \/ \E t \in Threads : LockWake(t)
    \/ \E t \in Threads : Return(t)

LockSpec == LockInit /\ [][LockNext]_vars

\* ============================================================== claims
PoolClasses == {"Crippled", "RW"}

\* A wrapper on which release() has not completed.
Active(w) == wrappers[w].cls # "none" /\ wrappers[w].conn # None
Released(w) == wrappers[w].cls # "none" /\ wrappers[w].conn = None

\* Wrappers holding a connection of the read-write pool.
CheckedOut == {w \in Slots : Active(w) /\ wrappers[w].cls \in PoolClasses}

IdleConns == {pool[i][1] : i \in 1..Len(pool)}

\* The step is a release() or a __del__ that reaches _release: read in the
\* state before the step, with last' naming the wrapper.
PoolReleaseStep ==
    /\ last'.op \in {"release", "del"}
    /\ wrappers[last'.w].cls \in PoolClasses
    /\ wrappers[last'.w].conn # None

\* Released at time ts, a connection has been idle for more than
\* minkeepsecs at time t.
OlderThanKeep(ts, t) == t - ts > minkeepsecs

Min(a, b) == IF a < b THEN a ELSE b
Max(a, b) == IF a > b THEN a ELSE b

\* ---- C1: with maxconn = N configured, _nbconn never exceeds N.
C1_LiveWithinMax ==
    (constructed /\ maxconn_opt # None) => nbconn <= maxconn_opt

C1_Witness ==
    /\ maxconn_opt # None
    /\ nbconn = maxconn_opt
    /\ last.op = "acquire" /\ last.result = "ok"
    /\ Cardinality(CheckedOut) = maxconn_opt

\* ---- C2: an acquire entered with the pool empty and _nbconn = maxconn
\* goes to wait(); a waiting thread leaves wait() only in a step that is a
\* release which reached notify(); and the thread that comes back from
\* wait() with a wrapper holds a connection, with _nbconn within maxconn and
\* a connection created only below maxconn.
C2_BlocksUntilRelease ==
    [][ /\ (last'.op = "acquire" /\ maxconn_opt # None /\ pool = <<>>
              /\ nbconn = maxconn_opt)
           => (/\ last'.result = "wait"
               /\ \E t \in Threads : pc[t] = "idle" /\ pc'[t] = "wait"
               /\ nbconn' = nbconn /\ wrappers' = wrappers
               /\ nconnect' = nconnect)
        /\ \A t \in Threads :
             /\ (pc[t] = "wait" /\ pc'[t] # "wait")
                  => (/\ pc'[t] = "notified"
                      /\ last'.op \in {"release", "del"}
                      /\ last'.result = "ok"
                      /\ Len(pool') > 0 \/ nbconn' < maxconn_opt)
             /\ (pc[t] = "notified" /\ pc'[t] = "idle" /\ last'.result = "ok")
                  => (/\ last'.op = "resume"
                      /\ wrappers'[last'.w].conn # None
                      /\ wrappers[last'.w].cls = "none"
                      /\ nbconn' <= maxconn_opt
                      /\ nconnect' > nconnect => nbconn < maxconn_opt)
      ]_vars

C2_Witness ==
    /\ last.op = "resume" /\ last.result = "ok"
    /\ Active(last.w)
    /\ nbconn = maxconn_opt

\* ---- C3: _nbconn = len(_pool) + the read-write connections checked out
\* to wrappers not yet released.
C3_Accounting ==
    constructed => nbconn = Len(pool) + Cardinality(CheckedOut)

\* ---- C4: no connection is in the pool while a wrapper not yet released
\* holds it, and none is in the pool twice.
C4_IdleXorCheckedOut ==
    /\ \A w \in Slots : Active(w) => wrappers[w].conn \notin IdleConns
    /\ \A i, j \in 1..Len(pool) : pool[i][1] = pool[j][1] => i = j

\* ---- C5: the connections closed by the scale-down of a release or by
\* finalize() are held by no wrapper that is still not released.
C5_NoCloseWhileReferenced ==
    \A w \in Slots : Active(w) => wrappers[w].conn \notin last.evicted

\* ---- C6 (as stated): after a release() that completed, the pool holds at
\* least minconn connections, unless fewer than minconn are live at all.
C6_Original ==
    (last.op = "release" /\ last.result = "ok"
       /\ wrappers[last.w].cls \in PoolClasses)
    => (Len(pool) >= minconn \/ nbconn < minconn)

\* ---- C6 (amended): a release to the read-write pool leaves at least
\* min(minconn, len(_pool) before the call + 1) connections in the pool.
C6_FloorKept ==
    [][ PoolReleaseStep => Len(pool') >= Min(minconn, Len(pool) + 1) ]_vars

C6_Witness ==
    /\ last.op = "release" /\ last.result = "ok"
    /\ last.nclose > 0
    /\ minconn > 0
    /\ Len(pool) = minconn

Appended == Append(pool, <<wrappers[last'.w].conn, now>>)
StaleIn(p, t) == {i \in 1..Len(p) : OlderThanKeep(p[i][2], t)}

C8_CommitOnlyReadWrite ==
    (last.op = "commit") =>
        /\ wrappers[last.w].cls \in {"RO", "Crippled"}
             => last.result = "ReadOnly"
        /\ last.result = "ok" => (wrappers[last.w].cls = "RW" /\ Active(last.w))

C8_Witness ==
    /\ last.op = "commit" /\ last.result = "ReadOnly"
    /\ wrappers[last.w].cls = "RO"
    /\ Active(last.w)

WrapperOps == {"cursor", "commit", "rollback", "release"}

\* ---- C9 (as stated): every operation on a released wrapper raises the
\* "already closed" error.
C9_Original ==
    [][ (last'.op \in WrapperOps /\ Released(last'.w))
        => last'.result = "Closed" ]_vars

\* ---- C9 (amended): every operation on a released wrapper raises and
\* leaves the pool alone: the "already closed" error, except commit() on a
\* read-only or crippled wrapper, which raises the read-only error as it
\* does before release.
C9_UseAfterRelease ==
    [][ (last'.op \in WrapperOps /\ Released(last'.w))
        => /\ last'.result =
                IF last'.op = "commit" /\ wrappers[last'.w].cls # "RW"
                THEN "ReadOnly" ELSE "Closed"
           /\ UNCHANGED <<pool, nbconn, roconn, roconn_refs, wrappers, pc,
                          closed>> ]_vars

C9_Witness ==
    /\ last.op \in {"cursor", "rollback"} /\ last.result = "Closed"
    /\ Released(last.w)

\* ---- C10: finalize() with every wrapper released closes the read-only
\* connection and the pool, leaving the pool empty, _nbconn = 0, no
\* read-only connection and no reference to it; finalize() on a finalized
\* pool returns without closing anything.
C10_FinalizeDrains ==
    (last.op = "finalize" /\ \A w \in Slots : ~Active(w))
    => /\ last.result \in {"ok", "noop"}
       /\ pool = <<>> /\ nbconn = 0 /\ roconn = None /\ roconn_refs = 0
       /\ last.result = "noop" => last.evicted = {}

\* Wrappers of the shared read-only connection not yet released.
ActiveRO == {w \in Slots : Active(w) /\ wrappers[w].cls = "RO"}

AcquireOps == {"acquire", "resume"}

\* ---- C11: a pool built with the read-only connection not shared
\* (disable_ro, or a DBAPI module with threadsafety < 2) exists and serves
\* connection_ro() from the read-write pool: _nbconn stays within maxconn,
\* and no read-only connection, reference or read-only wrapper ever exists.
C11_SharingDisabledUsesPool ==
    ~ro_shared =>
        /\ constructed
        /\ roconn = None /\ roconn_refs = 0
        /\ \A w \in Slots : wrappers[w].cls # "RO"
        /\ maxconn # None => nbconn <= maxconn

\* ---- C12: when dbapi.connect raises inside a read-write acquire, the
\* caller gets the error and is out of _acquire (the lock is free), and the
\* pool, _nbconn, the read-only connection and every wrapper are as before
\* the call; no other thread is moved.
C12_FactoryFailureLeavesPool ==
    [][ (last'.op \in AcquireOps /\ last'.result = "ConnectError") =>
          /\ UNCHANGED <<pool, nbconn, roconn, roconn_refs, wrappers,
                         nconnect, closed>>
          /\ \E t \in Threads :
                /\ pc[t] \in {"idle", "notified"}
                /\ pc'[t] = "idle"
                /\ \A u \in Threads \ {t} : pc'[u] = pc[u]
      ]_vars

C12_Witness ==
    /\ last.op \in AcquireOps /\ last.result = "ConnectError"
    /\ pool = <<>>
    /\ \A t \in Threads : pc[t] = "idle"

\* ---- C13: a close() that raises during the scale-down of a release or
\* during finalize() does not make release() or finalize() fail.
C13_CloseFailureSwallowed ==
    (last.op \in {"release", "finalize"}) => last.result # "CloseError"

\* ---- C14: with maxconn = N and the read-only connection shared, the
\* read-write pool holds at most N - 1 connections, so that the read-write
\* connections and the read-only one are never more than N; with the
\* read-only connection not shared the pool holds at most N.
C14_OneSlotReserved ==
    maxconn_opt # None =>
        IF ro_shared
        THEN /\ constructed
             /\ nbconn <= maxconn_opt - 1
             /\ nbconn + (IF roconn # None THEN 1 ELSE 0) <= maxconn_opt
        ELSE nbconn <= maxconn_opt

C17_RoHandleOnlyClosedByFinalize ==
    [][ /\ roconn' # None =>
             \A i \in 1..Len(pool') : pool'[i][1] # roconn'
        /\ (roconn # None /\ (roconn \in closed' \/ roconn' # roconn)) =>
             /\ last'.op = "finalize"
             /\ roconn_refs = 0
             /\ roconn' = None
      ]_vars

C17_Witness ==
    /\ last.op = "finalize" /\ last.result = "ok"
    /\ last.evicted # {} /\ nconnect = 1
    /\ roconn = None
    /\ \E w \in Slots : wrappers[w].cls = "RO" /\ Released(w)

\* ---- C18: a release() that returns leaves its wrapper released, and a
\* released wrapper stays as it is, without a connection, until the object
\* goes away.
C18_ReleasedForGood ==
    [][ /\ \A w \in Slots :
             Released(w) => wrappers'[w] \in {wrappers[w], NoWrapper}
        /\ (last'.op = "release" /\ last'.result = "ok") =>
             /\ Active(last'.w)
             /\ wrappers'[last'.w] =
                    [cls |-> wrappers[last'.w].cls, conn |-> None]
      ]_vars

C18_Witness ==
    /\ last.op \in {"acquire", "acquire_ro"} /\ last.result = "ok"
    /\ \E w \in Slots : Released(w) /\ w # last.w

\* ---- C19: release() on a wrapper already released raises and changes
\* nothing: pool, _nbconn, read-only connection and references, wrappers
\* and closed connections are as before, and no waiting thread is woken.
C19_SecondReleaseFails ==
    [][ (last'.op = "release" /\ Released(last'.w)) =>
          /\ last'.result \notin {"ok", "wait"}
          /\ UNCHANGED <<pool, nbconn, roconn, roconn_refs, wrappers, pc,
                         want, closed>>
      ]_vars

C19_Witness ==
    /\ last.op = "release" /\ last.result = "Closed"
    /\ Released(last.w)
    /\ Waiters # {}

\* ---- C20: finalize() called while some wrapper is not yet released
\* raises before it closes anything and leaves the pool, _nbconn, the
\* read-only connection and its references as they were.
C20_FinalizeAbortsOnLeak ==
    [][ (last'.op = "finalize" /\ \E w \in Slots : Active(w)) =>
          /\ last'.result = "AssertionError"
          /\ UNCHANGED <<pool, nbconn, roconn, roconn_refs, closed>>
      ]_vars

\* A thread waits although a connection could be had, and no thread is
\* on its way out of wait().
Stranded ==
    /\ maxconn # None
    /\ Waiters # {}
    /\ pool # <<>> \/ nbconn < maxconn
    /\ \A t \in Threads : pc[t] # "notified"

\* ---- C22: a thread goes to wait() only inside a read-write acquire
\* (on entry or back from an earlier wait), with maxconn configured, the
\* pool empty and _nbconn = maxconn; so never with maxconn None, and never
\* in a connection_ro() served by the shared read-only connection.
C22_OnlyBoundedAcquireWaits ==
    [][ \A t \in Threads :
          (pc'[t] = "wait" /\ pc[t] # "wait") =>
             /\ last'.op \in AcquireOps /\ last'.result = "wait"
             /\ want'[t] = "RW"
             /\ maxconn_opt # None
             /\ pool = <<>> /\ pool' = <<>>
             /\ nbconn = maxconn_opt /\ nbconn' = nbconn
      ]_vars

C22_Witness ==
    /\ last.op = "acquire_ro" /\ last.result = "ok"
    /\ Waiters # {}
    /\ pool = <<>> /\ nbconn = maxconn_opt

\* ---- C23: release() on a wrapper not yet released raises no error of
\* the pool's own making, whatever minconn, minkeepsecs and maxconn are (a
\* close() that raises is the matter of C13 and is left aside here).
C23_ReleaseNeverFails ==
    [][ (last'.op = "release" /\ Active(last'.w))
        => last'.result \in {"ok", "CloseError"} ]_vars

\* ---- C24: a connection on which close() has returned is not in the pool
\* and is not the connection of a wrapper just handed out.
C24_NoResurrection ==
    /\ \A i \in 1..Len(pool) : pool[i][1] \notin closed
    /\ (last.op \in AcquireOps \cup {"acquire_ro"} /\ last.result = "ok")
         => wrappers[last.w].conn \notin closed

C29_SingleOwner ==
    \A v, w \in CheckedOut : wrappers[v].conn = wrappers[w].conn => v = w

\* ---- C30: no wake-up is lost: no step, except a release that fails
\* because close() raised (C13), takes the pool into a state where a
\* thread is blocked in wait() while the pool is not empty or
\* _nbconn < maxconn and no notified thread has yet to run.
C30_NoLostWakeup ==
    [][ (~Stranded /\ Stranded') => last'.result = "CloseError" ]_vars

\* ---- C25: _getstats returns (len(_pool), number of live connections),
\* the second being the connections in the pool plus those checked out.
C25_StatsPair ==
    (last.op = "stats") =>
        last.value = <<Len(pool), Len(pool) + Cardinality(CheckedOut)>>

\* ---- C27: with a 'user_readonly' configured, the connection of every
\* wrapper handed out by connection_ro() was created with that user, the
\* connection of every wrapper of connection() with the user of the
\* connection parameters, and the stored parameters keep their user.
C27_ReadOnlyPrincipal ==
    (constructed /\ user_ro # None) =>
        /\ \A w \in Slots :
             Active(w) =>
                creds[wrappers[w].conn] =
                    IF wrappers[w].cls = "RW" THEN DefaultUser ELSE user_ro
        /\ params = DefaultUser

C27_Witness ==
    /\ user_ro = RoUser
    /\ \E w \in Slots : Active(w) /\ wrappers[w].cls = "RO"
    /\ \E w \in Slots : Active(w) /\ wrappers[w].cls = "RW"
    /\ last.op = "acquire" /\ last.result = "ok" /\ nconnect = 2

\* ---- C28: __del__ of a wrapper not yet released calls the
\* 'debug_unreleased' function exactly when there is one and gives the
\* connection back as release() does: a reference less on the read-only
\* connection, or the connection appended to the pool (where it stays, or
\* is closed by the scale-down, with _nbconn following) and a waiting
\* thread notified; __del__ of a released wrapper calls no function and
\* leaves the pool alone.
C28_DelReleases ==
    [][ (last'.op = "del") =>
          LET w == last'.w
              conn == wrappers[w].conn
          IN
          /\ wrappers'[w] = NoWrapper
          /\ IF Active(w)
             THEN /\ last'.hook = debug_unreleased
                  /\ IF wrappers[w].cls = "RO"
                     THEN /\ roconn_refs' = roconn_refs - 1
                          /\ UNCHANGED <<pool, nbconn, roconn, closed, pc>>
                     ELSE /\ \/ \E i \in 1..Len(pool') : pool'[i][1] = conn
                             \/ conn \in closed'
                          /\ nbconn' = nbconn - last'.nclose
                          /\ (last'.result = "ok" /\ Waiters # {}) =>
                                \E t \in Waiters : pc'[t] = "notified"
                          /\ UNCHANGED <<roconn, roconn_refs>>
             ELSE /\ ~last'.hook
                  /\ last'.result = "ok"
                  /\ UNCHANGED <<pool, nbconn, roconn, roconn_refs, closed,
                                 pc>>
      ]_vars

C28_Witness ==
    /\ last.op = "del" /\ last.hook /\ last.result = "ok"
    /\ wrappers[last.w] = NoWrapper
    /\ pool # <<>> /\ Len(pool) = nbconn

\* The lock a thread is waiting to take, and who holds it.
Wanted(t) ==
    IF lockpc[t].waiting THEN "pool"
    ELSE IF Ins(t)[1] = "acquire" THEN Ins(t)[2] ELSE "none"

Holder(l) == IF l = "pool" THEN pool_lock.owner ELSE roconn_lock

Blocked(t) ==
    /\ Wanted(t) # "none"
    /\ Holder(Wanted(t)) # 0
    /\ ~(Wanted(t) = "pool" /\ Holder("pool") = t /\ ~lockpc[t].waiting)

HoldsBoth(t) == pool_lock.owner = t /\ roconn_lock = t

\* Some threads each wait for a lock that one of them holds.
Deadlocked ==
    \E S \in (SUBSET Threads) \ {{}} :
        \A t \in S : Blocked(t) /\ Holder(Wanted(t)) \in S

\* ---- C21: a thread holds the read-only lock and the pool lock together
\* only inside finalize(), which takes the pool lock while it holds the
\* read-only lock; and no set of threads is such that each waits for a
\* lock held by one of them: there is no deadlock on the two locks.
C21_LockOrder ==
    [][ /\ \A t \in Threads :
             /\ HoldsBoth(t)' => lockpc'[t].method = "finalize"
             /\ (lockpc[t].method = "finalize" /\ pool_lock.owner # t
                   /\ pool_lock'.owner = t) => roconn_lock = t
        /\ ~Deadlocked'
      ]_vars

C21_Witness ==
    \E t, u \in Threads :
        /\ HoldsBoth(t) /\ lockpc[t].method = "finalize"
        /\ Blocked(u) /\ lockpc[u].method = "_release"

\* The sequence p without its entries at the indices of E, from index i
\* on.
RECURSIVE Without(_, _, _)
Without(p, E, i) ==
    IF i > Len(p) THEN <<>>
    ELSE (IF i \in E THEN <<>> ELSE <<p[i]>>) \o Without(p, E, i + 1)

\* ---- C31: the scale-down of a release, finding k connections in the
\* pool (the one released counted) of which s were released before
\* now - minkeepsecs, closes exactly min(max(k - minconn, 0), s)
\* connections, all of them among those s, takes as many off _nbconn, and
\* leaves every other entry in the pool, in order, with its time of
\* release.
C31_ScaledownPass ==
    [][ PoolReleaseStep =>
          LET n == Min(Max(Len(Appended) - minconn, 0),
                       Cardinality(StaleIn(Appended, now')))
          IN
          /\ last'.nclose = n
          /\ nbconn' = nbconn - n
          /\ closed' = closed \cup last'.evicted
          /\ \E E \in SUBSET StaleIn(Appended, now') :
               /\ Cardinality(E) = n
               /\ last'.evicted = {Appended[i][1] : i \in E}
               /\ pool' = Without(Appended, E, 1)
      ]_vars

\* The thread is inside _release: past the acquire of line 433 and not
\* past the release of line 450.
InRelease(t) ==
    /\ lockpc[t].method = "_release"
    /\ lockpc[t].at \in 2..Len(LockProgram("_release"))

\* ---- C32: self._pool and self._nbconn are read and written only by a
\* thread that holds the pool lock; a thread inside _release holds it from
\* the append to the notify, the acquire of _scaledown being granted to it
\* at once (the lock is re-entrant), so that no other thread is at a read
\* or a write of the pool while a release is under way.
C32_PoolUnderLock ==
    \A t \in Threads :
        /\ Touching(t) => pool_lock.owner = t
        /\ InRelease(t) =>
             /\ pool_lock.owner = t
             /\ \A u \in Threads \ {t} : ~Touching(u)
             /\ Ins(t)[1] = "acquire" => ENABLED LockAcquire(t)

C32_Witness ==
    \E t, u \in Threads :
        /\ InRelease(t) /\ pool_lock.depth = 2
        /\ lockpc[u].method = "_acquire" /\ Blocked(u)

\* ---- C33: a read-write acquire that returns a connection creates one
\* only when it finds the pool empty: with the pool not empty it returns a
\* connection of the pool, takes exactly that entry out and leaves _nbconn
\* as it was; with the pool empty it creates one connection and adds
\* exactly one to _nbconn.
C33_CreatesOnlyWhenEmpty ==
    [][ (last'.op \in AcquireOps /\ last'.result = "ok") =>
          LET conn == wrappers'[last'.w].conn IN
          IF pool # <<>>
          THEN /\ \E i \in 1..Len(pool) :
                    /\ pool[i][1] = conn
                    /\ pool' = Without(pool, {i}, 1)
               /\ nbconn' = nbconn
               /\ nconnect' = nconnect
          ELSE /\ nconnect' = nconnect + 1
               /\ conn = nconnect'
               /\ nbconn' = nbconn + 1
               /\ pool' = <<>>
      ]_vars

C33_Witness ==
    /\ last.op \in AcquireOps /\ last.result = "ok"
    /\ wrappers[last.w].conn = 1 /\ nconnect = 1 /\ closed = {}
    /\ \E w \in Slots : Released(w) /\ wrappers[w].cls = "RW"
    /\ pool = <<>> /\ nbconn = 1

\* ---- C34: release() gives the connection back to where it belongs and
\* touches nothing else: on a read-only wrapper not yet released it takes
\* one off _roconn_refs and leaves the pool, _nbconn, the read-only
\* connection and the waiting threads alone; on a crippled or read-write
\* wrapper it appends the connection to the pool (as the last entry, where
\* the scale-down of the same call finds it) and leaves the read-only
\* connection and _roconn_refs alone.
C34_ReleaseFrame ==
    [][ (last'.op \in {"release", "del"} /\ Active(last'.w)) =>
          IF wrappers[last'.w].cls = "RO"
          THEN /\ roconn_refs' = roconn_refs - 1
               /\ UNCHANGED <<pool, nbconn, roconn, closed, pc>>
          ELSE /\ \E E \in SUBSET (1..Len(Appended)) :
                    /\ pool' = Without(Appended, E, 1)
                    /\ Len(Appended) \in E =>
                         wrappers[last'.w].conn \in last'.evicted
               /\ UNCHANGED <<roconn, roconn_refs>>
      ]_vars

C34_Witness ==
    /\ last.op = "release" /\ last.result = "ok"
    /\ wrappers[last.w].cls = "RO" /\ Released(last.w)
    /\ roconn # None /\ roconn_refs = 0
    /\ pool # <<>> /\ nbconn = Len(pool)

\* ---- C35: a wrapper gives its connection back once, also when two
\* threads call release() on it at the same time: a release() that comes
\* to its end on a wrapper which another call has already released fails
\* and gives nothing back (nothing appended to the pool, no reference
\* taken off the read-only connection).
C35_ReleasedOnce ==
    [][ (last'.op = "release" /\ Released(last'.w)) =>
          /\ last'.result # "ok"
          /\ UNCHANGED <<pool, nbconn, roconn_refs>>
      ]_vars

\* ---- C36: when dbapi.connect raises while _get_connection_ro creates
\* the read-only connection, connection_ro() raises, there is still no
\* read-only connection and no reference to it, nothing else of the pool
\* has changed and no lock is held; the next connection_ro(), finding no
\* read-only connection, calls dbapi.connect again.
C36_RoFactoryFailure ==
    [][ /\ (last'.op = "acquire_ro" /\ last'.result = "ConnectError") =>
             /\ roconn = None /\ roconn' = None
             /\ roconn_refs' = roconn_refs
             /\ UNCHANGED <<pool, nbconn, wrappers, nconnect, closed, pc>>
             /\ roconn_lock' = 0 /\ pool_lock' = Free
        /\ (last'.op = "acquire_ro" /\ roconn = None) =>
             \/ last'.result = "ConnectError"
             \/ /\ last'.result = "ok"
                /\ nconnect' = nconnect + 1
                /\ roconn' = nconnect'
                /\ roconn_refs' = roconn_refs + 1
      ]_vars

C36_Witness ==
    /\ last.op = "acquire_ro" /\ last.result = "ConnectError"
    /\ roconn = None /\ roconn_refs = 0
    /\ \E w \in Slots : wrappers[w].cls = "RO" /\ Released(w)
    /\ closed # {}

\* ---- C37: with minkeepsecs > 0, the connection a release gives to the
\* pool is not closed by the scale-down of that call, and is in the pool
\* when the call ends.
C37_ReleasedHandleKept ==
    [][ \A t \in Threads :
          (/\ minkeepsecs > 0
           /\ last'.op = "release"
           /\ last'.result # "AttributeError"
           /\ releasing[t] # NoRelease /\ releasing'[t] = NoRelease
           /\ wrappers[releasing[t].w].cls \in PoolClasses)
          => /\ releasing[t].conn \notin last'.evicted
             /\ \E i \in 1..Len(pool') : pool'[i][1] = releasing[t].conn
      ]_vars

\* ---- C38: when the pool's side of a release raises (an assertion of
\* _release or _release_ro, or a close() that raised in the scale-down),
\* release() raises with the wrapper as it was, its connection not
\* cleared; a later release() or __del__ of that wrapper, like any on a
\* wrapper that holds a connection, passes _getconn() and hands the same
\* connection to the pool again (it is appended once more).
C38_FailedReleaseKeepsWrapper ==
    [][ /\ (last'.op = "release" /\ Active(last'.w) /\ last'.result # "ok")
             => /\ last'.result \in {"AssertionError", "CloseError"}
                /\ wrappers' = wrappers
        /\ PoolReleaseStep =>
             /\ last'.result # "Closed"
             /\ \E E \in SUBSET (1..Len(Appended)) :
                  /\ pool' = Without(Appended, E, 1)
                  /\ last'.evicted = {Appended[i][1] : i \in E}
                       \/ last'.result = "CloseError"
      ]_vars

\* A release that found the connection of its wrapper in the pool
\* already, and closed it twice.
C38_Witness ==
    /\ last.op \in {"release", "del"} /\ last.result = "ok"
    /\ last.nclose = 2 /\ Cardinality(last.evicted) = 1
    /\ \A w \in Slots : ~Active(w)

\* The accounting of the pool: _nbconn counts the pool and the read-write
\* connections checked out, _roconn_refs the read-only wrappers not yet
\* released, and _nbconn is within maxconn.
Accounted ==
    /\ nbconn = Len(pool) + Cardinality(CheckedOut)
    /\ roconn_refs = Cardinality(ActiveRO)
    /\ maxconn # None => nbconn <= maxconn

\* ---- C39: a finalize() that succeeds leaves the pool as a new pool
\* (empty, _nbconn = 0, no read-only connection, no reference) with the
\* accounting in order, and the connection() or connection_ro() that
\* comes next returns a connection just created, with the accounting
\* still in order.
C39_FinalizeForReuse ==
    [][ /\ (last'.op = "finalize" /\ last'.result = "ok") =>
             /\ pool' = <<>> /\ nbconn' = 0
             /\ roconn' = None /\ roconn_refs' = 0
             /\ Accounted'
        /\ (/\ last.op = "finalize" /\ last.result = "ok"
            /\ last'.op \in AcquireOps \cup {"acquire_ro"}
            /\ last'.result = "ok") =>
             /\ nconnect' = nconnect + 1
             /\ wrappers'[last'.w].conn = nconnect'
             /\ nconnect' \notin closed'
             /\ Accounted'
      ]_vars

====
